---- MODULE Spec2Model ----
(***************************************************************************)
(* Model of the tpdf page-rendering pipeline: the page cache               *)
(* (src/src/cache.rs), the render worker pool and the coordinator loop     *)
(* (src/src/app.rs).                                                       *)
(*                                                                         *)
(* Fixed-point conventions (the source uses f32):                          *)
(*   zoom, pan     integers in units of 1/100   (zoom 1.0 = 100)           *)
(*   render scale  integers in units of 1/1000  (scale 1.0 = 1000)         *)
(* Option<T> is a sequence of length 0 (None) or 1 (Some).                 *)
(* HashMap<K,V> is a function whose DOMAIN is the set of keys present.     *)
(***************************************************************************)
EXTENDS Integers, Sequences, FiniteSets, TLC

VARIABLES
    cache,          \* App.cache : PageCache
    current_page,   \* App.current_page
    page_count,     \* App.page_count
    zoom,           \* App.zoom
    pan,            \* <<App.pan_x, App.pan_y>>
    layout,         \* App.layout, as pages_across (1, 2, 3)
    dark_mode,      \* App.dark_mode
    fullscreen,     \* App.fullscreen
    goto_mode,      \* App.goto_mode
    goto_input,     \* App.goto_input, a sequence of digits
    text_mode,      \* App.text_mode
    term,           \* <<App.term_cols, App.term_rows>>
    pending,        \* App.pending : HashSet<usize>
    should_quit,    \* App.should_quit
    dirty,          \* local `dirty` of App::run
    pc,             \* position of the coordinator in App::run
    req_q,          \* the RenderRequest channel (req_tx -> shared_rx)
    workers,        \* per worker thread: what it is doing
    res_q,          \* the RenderResult channel (res_tx -> render_rx)
    last,           \* the last operation of the coordinator (or PageCache call), and what it returned
    inputs,         \* number of input events consumed so far
    lock,           \* the Mutex around shared_rx: the worker holding it, or 0
    lost,           \* requests that failed while their page was pending, since pending was last cleared
    exited          \* the worker threads that have left their loop

vars == <<cache, current_page, page_count, zoom, pan, layout, dark_mode,
          fullscreen, goto_mode, goto_input, text_mode, term, pending,
          should_quit, dirty, pc, req_q, workers, res_q, last, inputs, lock,
          lost, exited>>

-----------------------------------------------------------------------------
(* Generic helpers *)

None == <<>>
Some(x) == <<x>>
IsSome(o) == o # <<>>

Abs(x) == IF x < 0 THEN -x ELSE x
Min(a, b) == IF a < b THEN a ELSE b
Max(a, b) == IF a > b THEN a ELSE b

\* x / y rounded to the nearest integer (f32::round), for x >= 0, y > 0
RoundDiv(x, y) == (2 * x + y) \div (2 * y)

EmptyMap == <<>>
MapInsert(m, k, v) == [x \in (DOMAIN m) \cup {k} |-> IF x = k THEN v ELSE m[x]]
MapRemove(m, k) == [x \in (DOMAIN m) \ {k} |-> m[x]]
MapGet(m, k) == IF k \in DOMAIN m THEN Some(m[k]) ELSE None

-----------------------------------------------------------------------------
(* Bounds of the model *)

\* pages addressed by the cache-level specification
CachePages == 2
\* largest eviction radius tried by the cache-level specification
MaxRadius == 1

-----------------------------------------------------------------------------
(* Program constants *)

\* f32::EPSILON (1.19e-7) is below the fixed-point resolution
F32Epsilon == 0
\* the 0.01 scale tolerance, in units of 1/1000
ScaleTolerance == 10
\* page geometry fallback (612.0, 792.0) points
PageW == 612
PageH == 792

-----------------------------------------------------------------------------
(* Images.  A bitmap is identified by what produced it: the page and scale  *)
(* it was rasterized at, whether it went through dark::invert, and the      *)
(* rectangle cropped out of it.                                             *)

\* PdfDocument::render_page: the pixmap of page idx under Matrix::new_scale
render_page(idx, scale) ==
    [idx |-> idx, scale |-> scale, inv |-> FALSE, x |-> 0, y |-> 0,
     w |-> Max(1, (PageW * scale) \div 1000),
     h |-> Max(1, (PageH * scale) \div 1000)]

\* dark::invert
invert(img) == [img EXCEPT !.inv = ~img.inv]

\* cache.rs crop_with_pan; zoom, pan_x, pan_y in 1/100
crop_with_pan(img, z, pan_x, pan_y) ==
    LET w == img.w
        h == img.h
        crop_w == RoundDiv(100 * w, z)
        crop_h == RoundDiv(100 * h, z)
        max_x == IF w >= crop_w THEN w - crop_w ELSE 0
        max_y == IF h >= crop_h THEN h - crop_h ELSE 0
        x == RoundDiv((100 + pan_x) * max_x, 200)
        y == RoundDiv((100 + pan_y) * max_y, 200)
    IN [img EXCEPT !.x = img.x + Min(x, max_x), !.y = img.y + Min(y, max_y),
                   !.w = Max(crop_w, 1), !.h = Max(crop_h, 1)]

-----------------------------------------------------------------------------
(* PageCache *)

PageCache_new ==
    [images |-> EmptyMap, image_scales |-> EmptyMap, inverted |-> EmptyMap,
     protocols |-> EmptyMap, current_zoom |-> 100, current_pan |-> <<0, 0>>]

\* a clear that forgets the bitmaps and keeps what was derived from them
clear_bitmaps_only(c) ==
    [c EXCEPT !.images = EmptyMap]

clear(c) ==
    [c EXCEPT !.images = EmptyMap, !.image_scales = EmptyMap,
              !.inverted = EmptyMap, !.protocols = EmptyMap]

invalidate_protocols_all(c) ==
    [c EXCEPT !.images = EmptyMap, !.image_scales = EmptyMap,
              !.inverted = EmptyMap, !.protocols = EmptyMap]

invalidate_protocols(c) == [c EXCEPT !.protocols = EmptyMap]

ScaleEq(a, b) == Abs(a - b) < ScaleTolerance

has_image_at_scale(c, page_idx, scale) ==
    /\ page_idx \in DOMAIN c.image_scales
    /\ ScaleEq(c.image_scales[page_idx], scale)

insert_image_keep_derived(c, page_idx, scale, img) ==
    [c EXCEPT !.images = MapInsert(c.images, page_idx, img),
              !.image_scales = MapInsert(c.image_scales, page_idx, scale)]

insert_image(c, page_idx, scale, img) ==
    [c EXCEPT !.protocols = MapRemove(MapRemove(c.protocols, <<page_idx, FALSE>>),
                                      <<page_idx, TRUE>>),
              !.inverted = MapRemove(c.inverted, page_idx),
              !.images = MapInsert(c.images, page_idx, img),
              !.image_scales = MapInsert(c.image_scales, page_idx, scale)]

image_dims(c, page_idx) ==
    IF page_idx \in DOMAIN c.images
    THEN Some(<<c.images[page_idx].w, c.images[page_idx].h>>)
    ELSE None

\* let key = (page_idx, dark_mode)
ProtocolKey_page_only(page_idx, dark) == <<page_idx, FALSE>>

ProtocolKey(page_idx, dark) == <<page_idx, dark>>

has_protocol(c, page_idx, dark) == ProtocolKey(page_idx, dark) \in DOMAIN c.protocols

\* Picker::new_protocol on success: the display object encodes img; zoom and
\* pan are the arguments of the get_protocol call that built it.
new_protocol(img, z, p) == [img |-> img, zoom |-> z, pan |-> p]

\* picker.new_protocol(img, area, ..).ok(): None when the encoder fails
Encode_placeholder(img, z, p, enc_ok) == Some(new_protocol(img, z, p))

Encode(img, z, p, enc_ok) ==
    IF enc_ok THEN Some(new_protocol(img, z, p)) ELSE None

\* self.protocols.insert(key, protocol)
StoreProtocol_drop(c, key, protocol) == c

StoreProtocol(c, key, protocol) ==
    [c EXCEPT !.protocols = MapInsert(c.protocols, key, protocol)]

\* first part of get_protocol: invalidate on a zoom or pan change
SyncZoomPan_keep(c, z, p) ==
    LET zoom_changed == Abs(c.current_zoom - z) > F32Epsilon
        pan_changed == \/ Abs(c.current_pan[1] - p[1]) > F32Epsilon
                       \/ Abs(c.current_pan[2] - p[2]) > F32Epsilon
    IN IF zoom_changed \/ pan_changed
       THEN [c EXCEPT !.current_zoom = z, !.current_pan = p]
       ELSE c

SyncZoomPan(c, z, p) ==
    LET zoom_changed == Abs(c.current_zoom - z) > F32Epsilon
        pan_changed == \/ Abs(c.current_pan[1] - p[1]) > F32Epsilon
                       \/ Abs(c.current_pan[2] - p[2]) > F32Epsilon
    IN IF zoom_changed \/ pan_changed
       THEN [c EXCEPT !.protocols = EmptyMap, !.current_zoom = z,
                      !.current_pan = p]
       ELSE c

\* get_protocol returns the new cache, the returned Option<&Protocol> and
\* whether the encoder (picker.new_protocol) was invoked.  enc_ok is the
\* encoder's outcome if it is invoked.
get_protocol(c, page_idx, dark, z, p, enc_ok) ==
    LET c1 == SyncZoomPan(c, z, p)
        key == ProtocolKey(page_idx, dark)
        c2 == IF /\ key \notin DOMAIN c1.protocols
                 /\ dark
                 /\ page_idx \notin DOMAIN c1.inverted
                 /\ page_idx \in DOMAIN c1.images
              THEN [c1 EXCEPT !.inverted =
                        MapInsert(c1.inverted, page_idx, invert(c1.images[page_idx]))]
              ELSE c1
        base_img == IF dark THEN MapGet(c2.inverted, page_idx)
                            ELSE MapGet(c2.images, page_idx)
        img == IF z > 100 THEN crop_with_pan(base_img[1], z, p[1], p[2])
                          ELSE base_img[1]
        protocol == Encode(img, z, p, enc_ok)
        c3 == StoreProtocol(c2, key, protocol[1])
    IN IF key \in DOMAIN c1.protocols
       THEN [cache |-> c1, ret |-> MapGet(c1.protocols, key), encoded |-> FALSE]
       ELSE IF base_img = None
       THEN [cache |-> c2, ret |-> None, encoded |-> FALSE]
       ELSE IF protocol = None
       THEN [cache |-> c2, ret |-> None, encoded |-> TRUE]
       ELSE [cache |-> c3, ret |-> MapGet(c3.protocols, key), encoded |-> TRUE]

\* PageCache::evict_distant: drop the whole entry of every page farther than
\* radius from center
evict_distant_off_by_one(c, center, radius) ==
    LET keep(p) == Abs(p - center) < radius
    IN [c EXCEPT
          !.images = [p \in {q \in DOMAIN c.images : keep(q)} |-> c.images[p]],
          !.image_scales = [p \in {q \in DOMAIN c.image_scales : keep(q)}
                                |-> c.image_scales[p]],
          !.inverted = [p \in {q \in DOMAIN c.inverted : keep(q)} |-> c.inverted[p]],
          !.protocols = [k \in {q \in DOMAIN c.protocols : keep(q[1])}
                                |-> c.protocols[k]]]

evict_distant(c, center, radius) ==
    LET keep(p) == Abs(p - center) <= radius
    IN [c EXCEPT
          !.images = [p \in {q \in DOMAIN c.images : keep(q)} |-> c.images[p]],
          !.image_scales = [p \in {q \in DOMAIN c.image_scales : keep(q)}
                                |-> c.image_scales[p]],
          !.inverted = [p \in {q \in DOMAIN c.inverted : keep(q)} |-> c.inverted[p]],
          !.protocols = [k \in {q \in DOMAIN c.protocols : keep(q[1])}
                                |-> c.protocols[k]]]

-----------------------------------------------------------------------------
(* Coordinator: bounds and environment of the model *)

\* pages of the document in the full specification
NumPages == 2
\* input events (keys, resizes) consumed in one behaviour
MaxInputs == 1
\* terminal sizes a resize can report; the first is the size at start-up
TermSizes == {<<34, 24>>, <<35, 24>>}
StartTerm == <<34, 24>>
\* picker.font_size(): pixel size of one terminal cell
FontSize == <<5, 10>>
\* digits typed in goto mode, and how many of them in one dialogue
GotoDigits == {0, 2}
MaxGotoDigits == 2
\* AppConfig values App::new is called with
ConfigLayouts == {1, 2, 3}
ConfigDark == BOOLEAN
ConfigStartPages == {0, 1}

(* Program constants *)
NumWorkers == 2
ZoomStep == 10
PanStep == 15
ZoomMin == 25
ZoomMax == 400
Lookahead == 5
PrewarmAhead == 3
EvictRadius == 15
GotoMaxLen == 10

Workers == 1 .. NumWorkers

-----------------------------------------------------------------------------
(* Coordinator helpers (App) *)

usable_rows(t, fs) == IF fs THEN t[2] ELSE Max(t[2] - 1, 0)

\* App::render_scale in 1/1000; n is layout.pages_across()
render_scale(t, n, fs, z) ==
    LET fit_w == (1000 * t[1] * FontSize[1]) \div (n * PageW)
        fit_h == (1000 * usable_rows(t, fs) * FontSize[2]) \div PageH
        fit == Min(fit_w, fit_h)
    IN (fit * Max(z, 100)) \div 100

\* App::request_page on the pair st = [pending, q]
request_page_exact_scale(c, st, idx, scale) ==
    IF ~(idx \in DOMAIN c.image_scales /\ c.image_scales[idx] = scale)
       /\ idx \notin st.pending
    THEN [pending |-> st.pending \cup {idx},
          q |-> Append(st.q, [idx |-> idx, scale |-> scale])]
    ELSE st

request_page(c, st, idx, scale) ==
    IF ~has_image_at_scale(c, idx, scale) /\ idx \notin st.pending
    THEN [pending |-> st.pending \cup {idx},
          q |-> Append(st.q, [idx |-> idx, scale |-> scale])]
    ELSE st

\* the page indices App::request_visible_pages passes to request_page, in order
RECURSIVE RingOrder(_, _, _, _)
RingOrder(cur, visible_end, pcount, offset) ==
    IF offset >= Lookahead THEN <<>>
    ELSE (IF visible_end + offset < pcount THEN <<visible_end + offset>> ELSE <<>>)
         \o (IF cur >= offset + 1 THEN <<cur - (offset + 1)>> ELSE <<>>)
         \o RingOrder(cur, visible_end, pcount, offset + 1)

RECURSIVE VisibleOrder(_, _, _, _)
VisibleOrder(cur, n, pcount, i) ==
    IF i >= n THEN <<>>
    ELSE (IF cur + i < pcount THEN <<cur + i>> ELSE <<>>)
         \o VisibleOrder(cur, n, pcount, i + 1)

RequestOrder_lookahead_first(cur, n, pcount) ==
    RingOrder(cur, cur + n, pcount, 0) \o VisibleOrder(cur, n, pcount, 0)

RequestOrder(cur, n, pcount) ==
    VisibleOrder(cur, n, pcount, 0) \o RingOrder(cur, cur + n, pcount, 0)

RECURSIVE RequestAll(_, _, _, _)
RequestAll(c, st, order, scale) ==
    IF order = <<>> THEN st
    ELSE RequestAll(c, request_page(c, st, Head(order), scale), Tail(order), scale)

\* App::request_visible_pages
request_visible_pages(c, st, cur, n, pcount, scale) ==
    RequestAll(c, st, RequestOrder(cur, n, pcount), scale)

\* App::has_pending_visible
has_pending_visible(c, cur, n, pcount, scale) ==
    \E i \in 0 .. n - 1 : cur + i < pcount /\ ~has_image_at_scale(c, cur + i, scale)

\* App::has_nearby_unwarmed_protocol
has_nearby_unwarmed_protocol(c, cur, n, pcount, dark) ==
    \E idx \in Max(cur - Lookahead, 0) .. Min(cur + n + Lookahead, pcount) - 1 :
        IsSome(image_dims(c, idx)) /\ ~has_protocol(c, idx, dark)

\* get_protocol for each page of a list in turn; oks[idx] is the encoder's
\* outcome for page idx.  Pages without a bitmap are skipped when skip is set
\* (the `continue` of the pre-warm loop).
RECURSIVE WarmPages(_, _, _, _, _, _, _)
WarmPages(c, pages, dark, z, p, oks, skip) ==
    IF pages = <<>> THEN c
    ELSE LET idx == Head(pages)
             c1 == IF skip /\ image_dims(c, idx) = None THEN c
                   ELSE get_protocol(c, idx, dark, z, p, oks[idx]).cache
         IN WarmPages(c1, Tail(pages), dark, z, p, oks, skip)

RECURSIVE Range(_, _)
Range(a, b) == IF a >= b THEN <<>> ELSE <<a>> \o Range(a + 1, b)

\* the drain loop of App::process_render_results on st = [pending, cache, received]
DrainOne_any_scale(st, r, current_scale) ==
    [pending |-> st.pending \ {r.idx},
     cache |-> insert_image(st.cache, r.idx, r.scale, r.img),
     received |-> TRUE]

DrainOne(st, r, current_scale) ==
    IF Abs(r.scale - current_scale) < ScaleTolerance
    THEN [pending |-> st.pending \ {r.idx},
          cache |-> insert_image(st.cache, r.idx, r.scale, r.img),
          received |-> TRUE]
    ELSE [st EXCEPT !.pending = st.pending \ {r.idx}]

RECURSIVE DrainAll(_, _, _)
DrainAll(st, results, current_scale) ==
    IF results = <<>> THEN st
    ELSE DrainAll(DrainOne(st, Head(results), current_scale), Tail(results),
                  current_scale)

\* App::process_render_results: [pending, cache, received]
process_render_results(c, pend, results, t, n, fs, z, p, cur, pcount, dark, oks) ==
    LET current_scale == render_scale(t, n, fs, z)
        st == DrainAll([pending |-> pend, cache |-> c, received |-> FALSE],
                       results, current_scale)
    IN IF st.received
       THEN [st EXCEPT !.cache =
                WarmPages(st.cache, Range(cur, Min(cur + n + PrewarmAhead, pcount)),
                          dark, z, p, oks, TRUE)]
       ELSE st

\* the pages behind first, then the pages ahead
PrewarmOrder_behind_first(cur, n, pcount) ==
    Range(Max(cur - Lookahead, 0), cur) \o Range(cur, Min(cur + n + Lookahead, pcount))

\* the pages App::prewarm_one_nearby_protocol looks at, in order
PrewarmOrder(cur, n, pcount) ==
    Range(cur, Min(cur + n + Lookahead, pcount)) \o Range(Max(cur - Lookahead, 0), cur)

RECURSIVE FirstUnwarmed(_, _, _)
FirstUnwarmed(c, order, dark) ==
    IF order = <<>> THEN None
    ELSE IF IsSome(image_dims(c, Head(order))) /\ ~has_protocol(c, Head(order), dark)
    THEN Some(Head(order))
    ELSE FirstUnwarmed(c, Tail(order), dark)

\* App::prewarm_one_nearby_protocol
prewarm_one_nearby_protocol(c, cur, n, pcount, dark, z, p, ok) ==
    LET first == FirstUnwarmed(c, PrewarmOrder(cur, n, pcount), dark)
    IN IF first = None THEN c
       ELSE get_protocol(c, first[1], dark, z, p, ok).cache

\* view::draw: one get_protocol per visible page
draw(c, cur, n, pcount, dark, z, p, oks) ==
    WarmPages(c, VisibleOrder(cur, n, pcount, 0), dark, z, p, oks, FALSE)

\* PageLayout::cycle on pages_across
cycle(n) == IF n = 3 THEN 1 ELSE n + 1

\* str::parse::<usize> of a digit string: None for the empty string
RECURSIVE DigitsValue(_)
DigitsValue(ds) ==
    IF ds = <<>> THEN 0 ELSE 10 * DigitsValue(SubSeq(ds, 1, Len(ds) - 1)) + ds[Len(ds)]

parse_usize(ds) == IF ds = <<>> THEN None ELSE Some(DigitsValue(ds))

-----------------------------------------------------------------------------
(* Initial state: App::new with a picker (image mode) *)

\* `last`: the operation that produced the state.  For a PageCache call made
\* directly: its arguments, what it returned, whether it invoked the encoder
\* (encoded) and whether the encoder failed (failed).  For a drain step: the
\* number of results drained (arg) and how many of them were at a stale scale
\* (stale).  `had` is a fact about the state the operation started from:
\*   process_render_results  a result was accepted
\*   Resize, ToggleFullscreen  a bitmap was cached
\*   CycleLayout           a display object was cached
\*   insert_image          the page had an inverted variant or a display object
\*   get_protocol          display objects were cached and (zoom, pan) differed
\*                         from the recorded pair
\*   invalidate_protocols  a display object was cached
\*   clear                 a bitmap was cached
\*   evict_distant         a page beyond the radius had a bitmap
Op(name) ==
    [op |-> name, page |-> 0, dark |-> FALSE, arg |-> 0, zoom |-> 0,
     pan |-> <<0, 0>>, failed |-> FALSE, stale |-> 0, ret |-> None, encoded |-> FALSE,
     had |-> FALSE]

Init ==
    /\ cache = PageCache_new
    /\ page_count = NumPages
    /\ \E start_page \in ConfigStartPages :
         current_page = Min(start_page, Max(page_count - 1, 0))
    /\ zoom = 100
    /\ pan = <<0, 0>>
    /\ layout \in ConfigLayouts
    /\ dark_mode \in ConfigDark
    /\ fullscreen = FALSE
    /\ goto_mode = FALSE
    /\ goto_input = <<>>
    /\ text_mode = FALSE
    /\ term = StartTerm
    /\ pending = {}
    /\ should_quit = FALSE
    /\ dirty = FALSE
    /\ pc = "start"
    /\ req_q = <<>>
    /\ workers = [w \in Workers |-> None]
    /\ res_q = <<>>
    /\ last = Op("new")
    /\ inputs = 0
    /\ lock = 0
    /\ lost = {}
    /\ exited = {}

-----------------------------------------------------------------------------
(* Render workers: the loop of the threads spawned in App::new *)

\* rx.lock().unwrap(): an idle worker takes the Mutex around the receiver
\* main has returned and dropped the App: first render_tx, then render_rx
SenderDropped == pc \in {"tx_dropped", "dropped"}
ReceiverDropped == pc = "dropped"

WorkerLock(w) ==
    /\ w \notin exited
    /\ workers[w] = None
    /\ lock = 0
    /\ lock' = w
    /\ UNCHANGED <<cache, current_page, page_count, zoom, pan, layout, dark_mode,
                   fullscreen, goto_mode, goto_input, text_mode, term, pending,
                   should_quit, dirty, pc, req_q, workers, res_q, last, inputs,
                   lost,
                   exited>>

\* a worker that reads the head of the queue without removing it
WorkerRecv_peek(w) ==
    /\ lock = w
    /\ req_q # <<>>
    /\ workers' = [workers EXCEPT ![w] = Some(Head(req_q))]
    /\ lock' = 0
    /\ UNCHANGED <<cache, current_page, page_count, zoom, pan, layout, dark_mode,
                   fullscreen, goto_mode, goto_input, text_mode, term, pending,
                   should_quit, dirty, pc, req_q, res_q, last, inputs, lost,
                   exited>>

\* a worker whose guard lives until the end of the loop body
WorkerRecv_keeps_guard(w) ==
    /\ lock = w
    /\ req_q # <<>>
    /\ workers' = [workers EXCEPT ![w] = Some(Head(req_q))]
    /\ req_q' = Tail(req_q)
    /\ UNCHANGED <<cache, current_page, page_count, zoom, pan, layout, dark_mode,
                   fullscreen, goto_mode, goto_input, text_mode, term, pending,
                   should_quit, dirty, pc, res_q, last, inputs, lock, lost,
                   exited>>

\* guard.recv() returns Ok(r); the guard is dropped at the end of the block
WorkerRecv(w) ==
    /\ lock = w
    /\ req_q # <<>>
    /\ workers' = [workers EXCEPT ![w] = Some(Head(req_q))]
    /\ req_q' = Tail(req_q)
    /\ lock' = 0
    /\ UNCHANGED <<cache, current_page, page_count, zoom, pan, layout, dark_mode,
                   fullscreen, goto_mode, goto_input, text_mode, term, pending,
                   should_quit, dirty, pc, res_q, last, inputs, lost,
                   exited>>

\* pdf.render_page returns Ok(img); the result is sent
WorkerRenderOk(w) ==
    /\ workers[w] # None
    /\ ~ReceiverDropped
    /\ LET r == workers[w][1]
       IN res_q' = Append(res_q, [idx |-> r.idx, scale |-> r.scale,
                                  img |-> render_page(r.idx, r.scale)])
    /\ workers' = [workers EXCEPT ![w] = None]
    /\ UNCHANGED <<cache, current_page, page_count, zoom, pan, layout, dark_mode,
                   fullscreen, goto_mode, goto_input, text_mode, term, pending,
                   should_quit, dirty, pc, req_q, last, inputs, lock, lost,
                   exited>>

\* a pool that reports a failed request: the page is unmarked
WorkerRenderFail_unmarks(w) ==
    /\ workers[w] # None
    /\ workers' = [workers EXCEPT ![w] = None]
    /\ pending' = pending \ {workers[w][1].idx}
    /\ UNCHANGED <<cache, current_page, page_count, zoom, pan, layout, dark_mode,
                   fullscreen, goto_mode, goto_input, text_mode, term,
                   should_quit, dirty, pc, req_q, res_q, last, inputs, lock, lost,
                   exited>>

\* pdf.render_page returns Err: nothing is sent
WorkerRenderFail(w) ==
    /\ workers[w] # None
    /\ workers' = [workers EXCEPT ![w] = None]
    /\ lost' = IF workers[w][1].idx \in pending
               THEN lost \cup {workers[w][1]} ELSE lost
    /\ UNCHANGED <<cache, current_page, page_count, zoom, pan, layout, dark_mode,
                   fullscreen, goto_mode, goto_input, text_mode, term, pending,
                   should_quit, dirty, pc, req_q, res_q, last, inputs, lock, exited>>

\* guard.recv() returns Err: the channel is empty and its sender is gone;
\* the guard is dropped and the thread leaves the loop
WorkerRecvClosed_keeps_guard(w) ==
    /\ lock = w
    /\ req_q = <<>>
    /\ SenderDropped
    /\ exited' = exited \cup {w}
    /\ UNCHANGED <<cache, current_page, page_count, zoom, pan, layout, dark_mode,
                   fullscreen, goto_mode, goto_input, text_mode, term, pending,
                   should_quit, dirty, pc, req_q, workers, res_q, last, inputs,
                   lock, lost>>

WorkerRecvClosed(w) ==
    /\ lock = w
    /\ req_q = <<>>
    /\ SenderDropped
    /\ lock' = 0
    /\ exited' = exited \cup {w}
    /\ UNCHANGED <<cache, current_page, page_count, zoom, pan, layout, dark_mode,
                   fullscreen, goto_mode, goto_input, text_mode, term, pending,
                   should_quit, dirty, pc, req_q, workers, res_q, last, inputs,
                   lost>>

\* render_page succeeded, tx.send() returns Err because the receiver is gone:
\* the thread leaves the loop
WorkerSendFails(w) ==
    /\ workers[w] # None
    /\ ReceiverDropped
    /\ workers' = [workers EXCEPT ![w] = None]
    /\ exited' = exited \cup {w}
    /\ UNCHANGED <<cache, current_page, page_count, zoom, pan, layout, dark_mode,
                   fullscreen, goto_mode, goto_input, text_mode, term, pending,
                   should_quit, dirty, pc, req_q, res_q, last, inputs, lock,
                   lost>>

-----------------------------------------------------------------------------
(* Coordinator: App::run *)

Scale == render_scale(term, layout, fullscreen, zoom)

\* request_visible_pages on the current state
Requested(c, pend, q) ==
    request_visible_pages(c, [pending |-> pend, q |-> q], current_page, layout,
                          page_count, Scale)

\* entry of run: the first request step
RunStart ==
    /\ pc = "start"
    /\ LET st == IF text_mode THEN [pending |-> pending, q |-> req_q]
                 ELSE Requested(cache, pending, req_q)
       IN /\ pending' = st.pending
          /\ req_q' = st.q
    /\ dirty' = TRUE
    /\ pc' = "loop"
    /\ last' = Op("start")
    /\ UNCHANGED <<cache, current_page, page_count, zoom, pan, layout, dark_mode,
                   fullscreen, goto_mode, goto_input, text_mode, term,
                   should_quit, workers, res_q, inputs, lock, lost,
                   exited>>

\* while !should_quit fails: run returns
RunExit ==
    /\ pc = "loop"
    /\ should_quit
    /\ pc' = "done"
    /\ last' = Op("exit")
    /\ UNCHANGED <<cache, current_page, page_count, zoom, pan, layout, dark_mode,
                   fullscreen, goto_mode, goto_input, text_mode, term, pending,
                   should_quit, dirty, req_q, workers, res_q, inputs,
                   lock, lost,
                   exited>>

\* main returns: the fields of App are dropped in declaration order,
\* render_tx (the request sender) before render_rx (the result receiver)
DropSender ==
    /\ pc = "done"
    /\ pc' = "tx_dropped"
    /\ UNCHANGED <<cache, current_page, page_count, zoom, pan, layout, dark_mode,
                   fullscreen, goto_mode, goto_input, text_mode, term, pending,
                   should_quit, dirty, req_q, workers, res_q, last, inputs,
                   lock, lost, exited>>

DropReceiver ==
    /\ pc = "tx_dropped"
    /\ pc' = "dropped"
    /\ res_q' = <<>>
    /\ UNCHANGED <<cache, current_page, page_count, zoom, pan, layout, dark_mode,
                   fullscreen, goto_mode, goto_input, text_mode, term, pending,
                   should_quit, dirty, req_q, workers, last, inputs,
                   lock, lost, exited>>

\* top of the loop: process_render_results
\* E: the outcomes the encoder can have
ProcessResultsWith(E) ==
    /\ pc = "loop"
    /\ ~should_quit
    /\ IF text_mode
       THEN /\ UNCHANGED <<cache, pending, res_q, dirty>>
            /\ last' = Op("loop")
       ELSE \E oks \in [0 .. page_count - 1 -> E] :
              LET st == process_render_results(cache, pending, res_q, term, layout,
                            fullscreen, zoom, pan, current_page, page_count,
                            dark_mode, oks)
              IN /\ cache' = st.cache
                 /\ pending' = st.pending
                 /\ res_q' = <<>>
                 /\ dirty' = (dirty \/ st.received)
                 /\ last' = [Op("process_render_results") EXCEPT
                                !.arg = Len(res_q), !.had = st.received,
                                !.stale = Cardinality({i \in 1 .. Len(res_q) :
                                              ~ScaleEq(res_q[i].scale, Scale)})]
    /\ pc' = "draw"
    /\ UNCHANGED <<current_page, page_count, zoom, pan, layout, dark_mode,
                   fullscreen, goto_mode, goto_input, text_mode, term,
                   should_quit, req_q, workers, inputs, lock, lost,
                   exited>>

ProcessResults == ProcessResultsWith(BOOLEAN)

\* if dirty: terminal.draw(view::draw)
\* E: the outcomes the encoder can have
DrawWith(E) ==
    /\ pc = "draw"
    /\ IF dirty /\ ~text_mode
       THEN \E oks \in [0 .. page_count - 1 -> E] :
              cache' = draw(cache, current_page, layout, page_count, dark_mode,
                            zoom, pan, oks)
       ELSE UNCHANGED cache
    /\ dirty' = FALSE
    /\ pc' = "poll"
    /\ last' = Op("draw")
    /\ UNCHANGED <<current_page, page_count, zoom, pan, layout, dark_mode,
                   fullscreen, goto_mode, goto_input, text_mode, term, pending,
                   should_quit, req_q, workers, res_q, inputs, lock, lost,
                   exited>>

Draw == DrawWith(BOOLEAN)

\* event::poll(timeout) returns false: the idle branch
\* E: the outcomes the encoder can have
PollTimeoutWith(E) ==
    /\ pc = "poll"
    /\ IF ~text_mode /\ has_nearby_unwarmed_protocol(cache, current_page, layout,
                                                     page_count, dark_mode)
       THEN \E ok \in E :
              cache' = prewarm_one_nearby_protocol(cache, current_page, layout,
                            page_count, dark_mode, zoom, pan, ok)
       ELSE UNCHANGED cache
    /\ pc' = "loop"
    /\ last' = Op("idle")
    /\ UNCHANGED <<current_page, page_count, zoom, pan, layout, dark_mode,
                   fullscreen, goto_mode, goto_input, text_mode, term, pending,
                   should_quit, dirty, req_q, workers, res_q, inputs,
                   lock, lost,
                   exited>>

PollTimeout == PollTimeoutWith(BOOLEAN)

\* the event drain loop ends: request step and eviction
EndEvents ==
    /\ pc = "events"
    /\ IF dirty /\ ~text_mode
       THEN LET st == Requested(cache, pending, req_q)
            IN /\ pending' = st.pending
               /\ req_q' = st.q
               /\ cache' = evict_distant(cache, current_page, EvictRadius)
       ELSE UNCHANGED <<pending, req_q, cache>>
    /\ pc' = "loop"
    /\ last' = Op("end_events")
    /\ UNCHANGED <<current_page, page_count, zoom, pan, layout, dark_mode,
                   fullscreen, goto_mode, goto_input, text_mode, term,
                   should_quit, dirty, workers, res_q, inputs, lock, lost,
                   exited>>

(* One event read by event::read() in the drain loop *)

\* the handlers that call self.pending.clear()
ClearsPending(name) ==
    \/ name \in {"Resize", "ZoomIn", "ZoomOut", "ZoomReset", "ToggleFullscreen"}
    \/ name = "ToggleTextMode" /\ text_mode

\* had: for a message that clears the cache, a bitmap was cached; for
\* CycleLayout, a display object was cached
EventFrameH(name, had) ==
    /\ pc \in {"poll", "events"}
    /\ pc' = "events"
    /\ last' = [Op(name) EXCEPT !.had = had]
    /\ lost' = IF ClearsPending(name) THEN {} ELSE lost
    /\ UNCHANGED <<page_count, workers, res_q, lock, exited>>

EventFrame(name) == EventFrameH(name, FALSE)

\* a key press that maps to a message: update(msg); dirty = true
\* a new command counts against the input budget of the model
Counted == inputs < MaxInputs /\ inputs' = inputs + 1

NormalKeyH(name, had) ==
    EventFrameH(name, had) /\ Counted /\ ~goto_mode /\ dirty' = TRUE
NormalKey(name) == NormalKeyH(name, FALSE)
\* the keys of a goto dialogue belong to the command that opened it
GotoKey(name) == EventFrame(name) /\ goto_mode /\ dirty' = TRUE /\ UNCHANGED inputs

\* Event::Resize(cols, rows)
Resize ==
    /\ EventFrameH("Resize", cache.images # EmptyMap)
    /\ Counted
    /\ \E t \in TermSizes : term' = t
    /\ cache' = clear(cache)
    /\ pending' = {}
    /\ dirty' = TRUE
    /\ UNCHANGED <<current_page, zoom, pan, layout, dark_mode, fullscreen,
                   goto_mode, goto_input, text_mode, should_quit, req_q>>

\* a key with no message, or an event that is neither a key press nor a resize
OtherEvent ==
    /\ EventFrame("OtherEvent")
    /\ Counted
    /\ UNCHANGED <<cache, current_page, zoom, pan, layout, dark_mode, fullscreen,
                   goto_mode, goto_input, text_mode, term, pending, should_quit,
                   dirty, req_q>>

Quit ==
    /\ NormalKey("Quit")
    /\ should_quit' = TRUE
    /\ UNCHANGED <<cache, current_page, zoom, pan, layout, dark_mode, fullscreen,
                   goto_mode, goto_input, text_mode, term, pending, req_q>>

\* NextPage, PrevPage, FirstPage, LastPage
SetPage(name, page) ==
    /\ NormalKey(name)
    /\ current_page' = page
    /\ UNCHANGED <<cache, zoom, pan, layout, dark_mode, fullscreen, goto_mode,
                   goto_input, text_mode, term, pending, should_quit, req_q>>

\* NextPage without the clamp to the last page
NextPage_unclamped == SetPage("NextPage", current_page + 1)

NextPage == SetPage("NextPage", Min(current_page + 1, Max(page_count - 1, 0)))
PrevPage == SetPage("PrevPage", Max(current_page - 1, 0))
FirstPage == SetPage("FirstPage", 0)
LastPage == SetPage("LastPage", Max(page_count - 1, 0))

\* a zoom handler that clears the cache as the fullscreen toggle does
SetZoom_clears_cache(name, z) ==
    /\ NormalKey(name)
    /\ zoom' = z
    /\ pending' = {}
    /\ pan' = <<0, 0>>
    /\ cache' = clear(cache)
    /\ UNCHANGED <<current_page, layout, dark_mode, fullscreen, goto_mode,
                   goto_input, text_mode, term, should_quit, req_q>>

\* a zoom handler without reset_pan()
SetZoom_keeps_pan(name, z) ==
    /\ NormalKey(name)
    /\ zoom' = z
    /\ pending' = {}
    /\ UNCHANGED <<cache, current_page, pan, layout, dark_mode, fullscreen,
                   goto_mode, goto_input, text_mode, term, should_quit, req_q>>

\* ZoomIn, ZoomOut, ZoomReset
SetZoom(name, z) ==
    /\ NormalKey(name)
    /\ zoom' = z
    /\ pending' = {}
    /\ pan' = <<0, 0>>
    /\ UNCHANGED <<cache, current_page, layout, dark_mode, fullscreen, goto_mode,
                   goto_input, text_mode, term, should_quit, req_q>>

ZoomIn == SetZoom("ZoomIn", Min(zoom + ZoomStep, ZoomMax))
ZoomOut == SetZoom("ZoomOut", Max(zoom - ZoomStep, ZoomMin))
ZoomReset == SetZoom("ZoomReset", 100)

\* ScrollUp, ScrollDown, ScrollLeft, ScrollRight
SetPan(name, p) ==
    /\ NormalKey(name)
    /\ pan' = p
    /\ UNCHANGED <<cache, current_page, zoom, layout, dark_mode, fullscreen,
                   goto_mode, goto_input, text_mode, term, pending, should_quit,
                   req_q>>

ScrollUp ==
    SetPan("ScrollUp", IF ~text_mode /\ zoom > 100
                       THEN <<pan[1], Max(pan[2] - PanStep, -100)>> ELSE pan)
ScrollDown ==
    SetPan("ScrollDown", IF ~text_mode /\ zoom > 100
                         THEN <<pan[1], Min(pan[2] + PanStep, 100)>> ELSE pan)
ScrollLeft ==
    SetPan("ScrollLeft", IF zoom > 100
                         THEN <<Max(pan[1] - PanStep, -100), pan[2]>> ELSE pan)
ScrollRight ==
    SetPan("ScrollRight", IF zoom > 100
                          THEN <<Min(pan[1] + PanStep, 100), pan[2]>> ELSE pan)

CycleLayout ==
    /\ NormalKeyH("CycleLayout", cache.protocols # EmptyMap)
    /\ layout' = cycle(layout)
    /\ cache' = invalidate_protocols(cache)
    /\ UNCHANGED <<current_page, zoom, pan, dark_mode, fullscreen, goto_mode,
                   goto_input, text_mode, term, pending, should_quit, req_q>>

ToggleDarkMode ==
    /\ NormalKey("ToggleDarkMode")
    /\ dark_mode' = ~dark_mode
    /\ UNCHANGED <<cache, current_page, zoom, pan, layout, fullscreen, goto_mode,
                   goto_input, text_mode, term, pending, should_quit, req_q>>

ToggleFullscreen ==
    /\ NormalKeyH("ToggleFullscreen", cache.images # EmptyMap)
    /\ fullscreen' = ~fullscreen
    /\ cache' = clear(cache)
    /\ pending' = {}
    /\ UNCHANGED <<current_page, zoom, pan, layout, dark_mode, goto_mode,
                   goto_input, text_mode, term, should_quit, req_q>>

\* picker.is_some() holds throughout this model
ToggleTextMode ==
    /\ NormalKeyH("ToggleTextMode", text_mode /\ cache.images # EmptyMap)
    /\ text_mode' = ~text_mode
    /\ IF text_mode
       THEN LET st == Requested(clear(cache), {}, req_q)
            IN /\ cache' = clear(cache)
               /\ pending' = st.pending
               /\ req_q' = st.q
       ELSE UNCHANGED <<cache, pending, req_q>>
    /\ UNCHANGED <<current_page, zoom, pan, layout, dark_mode, fullscreen,
                   goto_mode, goto_input, term, should_quit>>

EnterGoto ==
    /\ NormalKey("EnterGoto")
    /\ goto_mode' = TRUE
    /\ goto_input' = <<>>
    /\ UNCHANGED <<cache, current_page, zoom, pan, layout, dark_mode, fullscreen,
                   text_mode, term, pending, should_quit, req_q>>

GotoInput ==
    /\ GotoKey("GotoInput")
    /\ Len(goto_input) < MaxGotoDigits
    /\ \E d \in GotoDigits :
         goto_input' = IF Len(goto_input) < GotoMaxLen
                       THEN Append(goto_input, d) ELSE goto_input
    /\ UNCHANGED <<cache, current_page, zoom, pan, layout, dark_mode, fullscreen,
                   goto_mode, text_mode, term, pending, should_quit, req_q>>

GotoBackspace ==
    /\ GotoKey("GotoBackspace")
    /\ goto_input' = IF goto_input = <<>> THEN <<>>
                     ELSE SubSeq(goto_input, 1, Len(goto_input) - 1)
    /\ UNCHANGED <<cache, current_page, zoom, pan, layout, dark_mode, fullscreen,
                   goto_mode, text_mode, term, pending, should_quit, req_q>>

\* GotoConfirm without the upper bound of the range check
GotoConfirm_no_upper_bound ==
    /\ GotoKey("GotoConfirm")
    /\ LET page == parse_usize(goto_input)
       IN current_page' = IF page # None /\ page[1] >= 1
                          THEN page[1] - 1 ELSE current_page
    /\ goto_mode' = FALSE
    /\ goto_input' = <<>>
    /\ UNCHANGED <<cache, zoom, pan, layout, dark_mode, fullscreen, text_mode,
                   term, pending, should_quit, req_q>>

GotoConfirm ==
    /\ GotoKey("GotoConfirm")
    /\ LET page == parse_usize(goto_input)
       IN current_page' = IF page # None /\ page[1] >= 1 /\ page[1] <= page_count
                          THEN page[1] - 1 ELSE current_page
    /\ goto_mode' = FALSE
    /\ goto_input' = <<>>
    /\ UNCHANGED <<cache, zoom, pan, layout, dark_mode, fullscreen, text_mode,
                   term, pending, should_quit, req_q>>

GotoCancel ==
    /\ GotoKey("GotoCancel")
    /\ goto_mode' = FALSE
    /\ goto_input' = <<>>
    /\ UNCHANGED <<cache, current_page, zoom, pan, layout, dark_mode, fullscreen,
                   text_mode, term, pending, should_quit, req_q>>

Message ==
    \/ Quit \/ NextPage \/ PrevPage \/ FirstPage \/ LastPage
    \/ ZoomIn \/ ZoomOut \/ ZoomReset
    \/ ScrollUp \/ ScrollDown \/ ScrollLeft \/ ScrollRight
    \/ CycleLayout \/ ToggleDarkMode \/ ToggleFullscreen \/ ToggleTextMode
    \/ EnterGoto \/ GotoInput \/ GotoBackspace \/ GotoConfirm \/ GotoCancel

Next ==
    \/ RunStart \/ RunExit \/ ProcessResults \/ Draw \/ PollTimeout \/ EndEvents
    \/ Resize \/ OtherEvent \/ Message
    \/ DropSender \/ DropReceiver
    \/ \E w \in Workers : \/ WorkerLock(w) \/ WorkerRecv(w)
                         \/ WorkerRenderOk(w) \/ WorkerRenderFail(w)
                         \/ WorkerRecvClosed(w) \/ WorkerSendFails(w)

Spec == Init /\ [][Next]_vars

-----------------------------------------------------------------------------
(* The PageCache on its own: any sequence of calls of its public functions *)

CachePageSet == 0 .. CachePages - 1
\* scales bitmaps are inserted at
CacheScales == {277, 304}
\* (zoom, pan) pairs get_protocol is called with
CacheViews == {<<100, <<0, 0>>>>, <<150, <<0, 0>>>>, <<150, <<15, 0>>>>}

InitCache ==
    /\ cache = PageCache_new
    /\ page_count = CachePages
    /\ current_page = 0
    /\ zoom = 100
    /\ pan = <<0, 0>>
    /\ layout = 1
    /\ dark_mode = FALSE
    /\ fullscreen = FALSE
    /\ goto_mode = FALSE
    /\ goto_input = <<>>
    /\ text_mode = FALSE
    /\ term = StartTerm
    /\ pending = {}
    /\ should_quit = FALSE
    /\ dirty = FALSE
    /\ pc = "poll"
    /\ req_q = <<>>
    /\ workers = [w \in Workers |-> None]
    /\ res_q = <<>>
    /\ last = Op("new")
    /\ inputs = MaxInputs - 1
    /\ lock = 0
    /\ lost = {}
    /\ exited = {}

HasDerived(c, p) ==
    \/ p \in DOMAIN c.inverted
    \/ <<p, FALSE>> \in DOMAIN c.protocols
    \/ <<p, TRUE>> \in DOMAIN c.protocols

\* the direct calls are made before the message (pc = "poll")
CacheInsert ==
    /\ pc = "poll"
    /\ \E p \in CachePageSet, s \in CacheScales :
         /\ cache' = insert_image(cache, p, s, render_page(p, s))
         /\ last' = [Op("insert_image") EXCEPT !.page = p, !.arg = s,
                                              !.had = HasDerived(cache, p)]
    /\ UNCHANGED <<current_page, page_count, zoom, pan, layout, dark_mode,
                   fullscreen, goto_mode, goto_input, text_mode, term, pending,
                   should_quit, dirty, pc, req_q, workers, res_q, inputs,
                   lock, lost,
                   exited>>

CacheGet ==
    /\ pc = "poll"
    /\ \E p \in CachePageSet, dark \in BOOLEAN, v \in CacheViews, ok \in BOOLEAN :
         LET r == get_protocol(cache, p, dark, v[1], v[2], ok)
         IN /\ cache' = r.cache
            /\ last' = [Op("get_protocol") EXCEPT !.page = p, !.dark = dark,
                            !.zoom = v[1], !.pan = v[2], !.ret = r.ret,
                            !.failed = (r.encoded /\ ~ok),
                            !.encoded = r.encoded,
                            !.had = /\ cache.protocols # EmptyMap
                                    /\ <<cache.current_zoom, cache.current_pan>> # v]
    /\ UNCHANGED <<current_page, page_count, zoom, pan, layout, dark_mode,
                   fullscreen, goto_mode, goto_input, text_mode, term, pending,
                   should_quit, dirty, pc, req_q, workers, res_q, inputs,
                   lock, lost,
                   exited>>

CacheInvalidate ==
    /\ pc = "poll"
    /\ cache' = invalidate_protocols(cache)
    /\ last' = [Op("invalidate_protocols") EXCEPT
                    !.had = (cache.protocols # EmptyMap)]
    /\ UNCHANGED <<current_page, page_count, zoom, pan, layout, dark_mode,
                   fullscreen, goto_mode, goto_input, text_mode, term, pending,
                   should_quit, dirty, pc, req_q, workers, res_q, inputs,
                   lock, lost,
                   exited>>

CacheClear ==
    /\ pc = "poll"
    /\ cache' = clear(cache)
    /\ last' = [Op("clear") EXCEPT !.had = (cache.images # EmptyMap)]
    /\ UNCHANGED <<current_page, page_count, zoom, pan, layout, dark_mode,
                   fullscreen, goto_mode, goto_input, text_mode, term, pending,
                   should_quit, dirty, pc, req_q, workers, res_q, inputs,
                   lock, lost,
                   exited>>

CacheEvict ==
    /\ pc = "poll"
    /\ \E center \in CachePageSet, radius \in 0 .. MaxRadius :
         /\ cache' = evict_distant(cache, center, radius)
         /\ last' = [Op("evict_distant") EXCEPT !.page = center, !.arg = radius,
                        !.had = \E p \in DOMAIN cache.images :
                                    Abs(p - center) > radius]
    /\ UNCHANGED <<current_page, page_count, zoom, pan, layout, dark_mode,
                   fullscreen, goto_mode, goto_input, text_mode, term, pending,
                   should_quit, dirty, pc, req_q, workers, res_q, inputs,
                   lock, lost,
                   exited>>

\* any sequence of calls, which the one message whose handler is a PageCache
\* call alone may end
NextCache ==
    \/ CacheInsert \/ CacheGet \/ CacheInvalidate \/ CacheClear \/ CacheEvict
    \/ CycleLayout

SpecCache == InitCache /\ [][NextCache]_vars

-----------------------------------------------------------------------------
(* The first request step alone: run() entered on a fresh App, for documents
   of any length up to MaxReqPages and for a document of 100 pages *)

MaxReqPages == 12

InitRequest ==
    /\ cache = PageCache_new
    /\ page_count \in (1 .. MaxReqPages) \cup {100}
    /\ current_page \in 0 .. page_count - 1
    /\ zoom = 100
    /\ pan = <<0, 0>>
    /\ layout \in ConfigLayouts
    /\ dark_mode = FALSE
    /\ fullscreen = FALSE
    /\ goto_mode = FALSE
    /\ goto_input = <<>>
    /\ text_mode = FALSE
    /\ term = StartTerm
    /\ pending = {}
    /\ should_quit = FALSE
    /\ dirty = FALSE
    /\ pc = "start"
    /\ req_q = <<>>
    /\ workers = [w \in Workers |-> None]
    /\ res_q = <<>>
    /\ last = Op("new")
    /\ inputs = 0
    /\ lock = 0
    /\ lost = {}
    /\ exited = {}

SpecRequest == InitRequest /\ [][RunStart]_vars

-----------------------------------------------------------------------------
(* The request path alone: App::request_page and the request step called at
   any target scale, with requests served in between *)

\* target scales: the start-up scale, one within 0.01 of it, one beyond
PageScales == {277, 285, 304}

InitPage ==
    /\ cache = PageCache_new
    /\ page_count = CachePages
    /\ current_page = 0
    /\ zoom = 100
    /\ pan = <<0, 0>>
    /\ layout = 1
    /\ dark_mode = FALSE
    /\ fullscreen = FALSE
    /\ goto_mode = FALSE
    /\ goto_input = <<>>
    /\ text_mode = FALSE
    /\ term = StartTerm
    /\ pending = {}
    /\ should_quit = FALSE
    /\ dirty = FALSE
    /\ pc = "page"
    /\ req_q = <<>>
    /\ workers = [w \in Workers |-> None]
    /\ res_q = <<>>
    /\ last = Op("new")
    /\ inputs = 0
    /\ lock = 0
    /\ lost = {}
    /\ exited = {}

\* self.request_page(idx, scale)
PageRequest ==
    /\ pc = "page"
    /\ \E idx \in CachePageSet, scale \in PageScales :
         LET st == request_page(cache, [pending |-> pending, q |-> req_q], idx, scale)
         IN /\ pending' = st.pending
            /\ req_q' = st.q
            /\ last' = [Op("request_page") EXCEPT !.page = idx, !.arg = scale,
                            !.had = has_image_at_scale(cache, idx, scale)]
    /\ UNCHANGED <<cache, current_page, page_count, zoom, pan, layout, dark_mode,
                   fullscreen, goto_mode, goto_input, text_mode, term,
                   should_quit, dirty, pc, workers, res_q, inputs, lock, lost,
                   exited>>

\* self.request_visible_pages() while the target scale is scale
PageRequestStep ==
    /\ pc = "page"
    /\ \E scale \in PageScales :
         LET st == request_visible_pages(cache, [pending |-> pending, q |-> req_q],
                                         current_page, layout, page_count, scale)
         IN /\ pending' = st.pending
            /\ req_q' = st.q
            /\ last' = [Op("request_visible_pages") EXCEPT
                            !.arg = scale, !.had = (st.q = req_q)]
    /\ UNCHANGED <<cache, current_page, page_count, zoom, pan, layout, dark_mode,
                   fullscreen, goto_mode, goto_input, text_mode, term,
                   should_quit, dirty, pc, workers, res_q, inputs, lock, lost,
                   exited>>

\* the oldest request is rasterized and its result drained while the target
\* scale is current_scale
PageServe ==
    /\ pc = "page"
    /\ req_q # <<>>
    /\ \E current_scale \in PageScales :
         LET r == Head(req_q)
             st == DrainOne([pending |-> pending, cache |-> cache, received |-> FALSE],
                            [idx |-> r.idx, scale |-> r.scale,
                             img |-> render_page(r.idx, r.scale)], current_scale)
         IN /\ cache' = st.cache
            /\ pending' = st.pending
    /\ req_q' = Tail(req_q)
    /\ last' = Op("serve")
    /\ UNCHANGED <<current_page, page_count, zoom, pan, layout, dark_mode,
                   fullscreen, goto_mode, goto_input, text_mode, term,
                   should_quit, dirty, pc, workers, res_q, inputs, lock, lost,
                   exited>>

NextPageRequests == PageRequest \/ PageRequestStep \/ PageServe

SpecPage == InitPage /\ [][NextPageRequests]_vars

-----------------------------------------------------------------------------
(* crop_with_pan alone, applied to bitmaps of every size up to MaxSide, at
   zooms over the whole range [0.25, 4.0] and pans over [-1, 1]^2 *)

MaxSide == 4

\* zoom in 1/100: 0.25, 0.30, .. 4.00
CropZooms == {5 * k : k \in 5 .. 80}
\* pan components in 1/100
CropPans == {-100, -50, -15, 0, 15, 50, 100}

InitCrop ==
    /\ \E w \in 1 .. MaxSide, h \in 1 .. MaxSide :
         cache = insert_image(PageCache_new, 0, 277,
                              [render_page(0, 277) EXCEPT !.w = w, !.h = h])
    /\ zoom \in CropZooms
    /\ pan \in CropPans \X CropPans
    /\ page_count = 1
    /\ current_page = 0
    /\ layout = 1
    /\ dark_mode = FALSE
    /\ fullscreen = FALSE
    /\ goto_mode = FALSE
    /\ goto_input = <<>>
    /\ text_mode = FALSE
    /\ term = StartTerm
    /\ pending = {}
    /\ should_quit = FALSE
    /\ dirty = FALSE
    /\ pc = "crop"
    /\ req_q = <<>>
    /\ workers = [w \in Workers |-> None]
    /\ res_q = <<>>
    /\ last = Op("new")
    /\ inputs = 0
    /\ lock = 0
    /\ lost = {}
    /\ exited = {}

\* crop_with_pan(img, zoom, pan_x, pan_y): last.ret is the rectangle handed to
\* crop_imm
CropApply ==
    /\ pc = "crop"
    /\ pc' = "cropped"
    /\ last' = [Op("crop_with_pan") EXCEPT
                    !.zoom = zoom, !.pan = pan,
                    !.ret = Some(crop_with_pan(cache.images[0], zoom, pan[1], pan[2]))]
    /\ UNCHANGED <<cache, current_page, page_count, zoom, pan, layout, dark_mode,
                   fullscreen, goto_mode, goto_input, text_mode, term, pending,
                   should_quit, dirty, req_q, workers, res_q, inputs,
                   lock, lost,
                   exited>>

SpecCrop == InitCrop /\ [][CropApply]_vars

-----------------------------------------------------------------------------
(* The goto dialogue alone: the application in goto mode with any digits
   typed so far, on documents of 1 .. MaxReqPages and of 100 pages *)

RECURSIVE DigitStrings(_)
DigitStrings(n) ==
    IF n = 0 THEN {<<>>}
    ELSE LET shorter == DigitStrings(n - 1)
         IN shorter \cup {Append(s, d) : s \in shorter, d \in 0 .. 9}

InitGoto ==
    /\ cache = PageCache_new
    /\ page_count \in (1 .. MaxReqPages) \cup {100}
    /\ current_page \in {0, page_count - 1}
    /\ zoom = 100
    /\ pan = <<0, 0>>
    /\ layout = 1
    /\ dark_mode = FALSE
    /\ fullscreen = FALSE
    /\ goto_mode = TRUE
    /\ goto_input \in DigitStrings(MaxGotoDigits)
    /\ text_mode = FALSE
    /\ term = StartTerm
    /\ pending = {}
    /\ should_quit = FALSE
    /\ dirty = FALSE
    /\ pc = "poll"
    /\ req_q = <<>>
    /\ workers = [w \in Workers |-> None]
    /\ res_q = <<>>
    /\ last = Op("EnterGoto")
    /\ inputs = 1
    /\ lock = 0
    /\ lost = {}
    /\ exited = {}

NextGoto == GotoInput \/ GotoBackspace \/ GotoConfirm \/ GotoCancel

SpecGoto == InitGoto /\ [][NextGoto]_vars

-----------------------------------------------------------------------------
(* The application on a one-page document, with ExtraInputs more input
   events than MaxInputs *)

ExtraInputs == 1

InitOnePage ==
    /\ cache = PageCache_new
    /\ page_count = 1
    /\ current_page = 0
    /\ zoom = 100
    /\ pan = <<0, 0>>
    /\ layout = 1
    /\ dark_mode = FALSE
    /\ fullscreen = FALSE
    /\ goto_mode = FALSE
    /\ goto_input = <<>>
    /\ text_mode = FALSE
    /\ term = StartTerm
    /\ pending = {}
    /\ should_quit = FALSE
    /\ dirty = FALSE
    /\ pc = "start"
    /\ req_q = <<>>
    /\ workers = [w \in Workers |-> None]
    /\ res_q = <<>>
    /\ last = Op("new")
    /\ inputs = 0 - ExtraInputs
    /\ lock = 0
    /\ lost = {}
    /\ exited = {}

SpecOnePage == InitOnePage /\ [][Next]_vars

-----------------------------------------------------------------------------
(* The application when every rasterization succeeds *)

NextNoFail ==
    \/ RunStart \/ RunExit \/ ProcessResults \/ Draw \/ PollTimeout \/ EndEvents
    \/ Resize \/ OtherEvent \/ Message
    \/ \E w \in Workers : WorkerLock(w) \/ WorkerRecv(w) \/ WorkerRenderOk(w)

SpecNoFail == Init /\ [][NextNoFail]_vars

-----------------------------------------------------------------------------
(* The application on a document of FloodPages pages in single-page layout:
   the whole document lies in the request window of the first page *)

FloodPages == 6

InitFlood ==
    /\ cache = PageCache_new
    /\ page_count = FloodPages
    /\ current_page = 0
    /\ zoom = 100
    /\ pan = <<0, 0>>
    /\ layout = 1
    /\ dark_mode = FALSE
    /\ fullscreen = FALSE
    /\ goto_mode = FALSE
    /\ goto_input = <<>>
    /\ text_mode = FALSE
    /\ term = StartTerm
    /\ pending = {}
    /\ should_quit = FALSE
    /\ dirty = FALSE
    /\ pc = "start"
    /\ req_q = <<>>
    /\ workers = [w \in Workers |-> None]
    /\ res_q = <<>>
    /\ last = Op("new")
    /\ inputs = 0
    /\ lock = 0
    /\ lost = {}
    /\ exited = {}

\* the coordinator, with workers that take requests and are still rasterizing
NextSlowWorkers ==
    \/ RunStart \/ RunExit \/ ProcessResults \/ Draw \/ PollTimeout \/ EndEvents
    \/ Resize \/ OtherEvent \/ Message
    \/ \E w \in Workers : WorkerLock(w) \/ WorkerRecv(w)

SpecFlood == InitFlood /\ [][NextSlowWorkers]_vars

-----------------------------------------------------------------------------
(* The worker pool alone: the requests of the first request step on a
   document of 1 .. PoolPages pages, worked off by the render workers *)

PoolPages == 5

InitPool ==
    /\ cache = PageCache_new
    /\ page_count \in 1 .. PoolPages
    /\ current_page = 0
    /\ zoom = 100
    /\ pan = <<0, 0>>
    /\ layout \in ConfigLayouts
    /\ dark_mode = FALSE
    /\ fullscreen = FALSE
    /\ goto_mode = FALSE
    /\ goto_input = <<>>
    /\ text_mode = FALSE
    /\ term = StartTerm
    /\ pending = {}
    /\ should_quit = FALSE
    /\ dirty = FALSE
    /\ pc = "start"
    /\ req_q = <<>>
    /\ workers = [w \in Workers |-> None]
    /\ res_q = <<>>
    /\ last = Op("new")
    /\ inputs = 0
    /\ lock = 0
    /\ lost = {}
    /\ exited = {}

NextPool ==
    \/ RunStart
    \/ \E w \in Workers : \/ WorkerLock(w) \/ WorkerRecv(w)
                         \/ WorkerRenderOk(w) \/ WorkerRenderFail(w)

SpecPool == InitPool /\ [][NextPool]_vars

-----------------------------------------------------------------------------
(* Navigation: the coordinator on documents of 1 .. NavPages pages opened at
   any configured start page, with workers that take requests and are still
   rasterizing *)

NavPages == 3

InitNav ==
    /\ cache = PageCache_new
    /\ page_count \in 1 .. NavPages
    /\ \E start_page \in 0 .. NavPages :
         current_page = Min(start_page, Max(page_count - 1, 0))
    /\ zoom = 100
    /\ pan = <<0, 0>>
    /\ layout \in ConfigLayouts
    /\ dark_mode = FALSE
    /\ fullscreen = FALSE
    /\ goto_mode = FALSE
    /\ goto_input = <<>>
    /\ text_mode = FALSE
    /\ term = StartTerm
    /\ pending = {}
    /\ should_quit = FALSE
    /\ dirty = FALSE
    /\ pc = "start"
    /\ req_q = <<>>
    /\ workers = [w \in Workers |-> None]
    /\ res_q = <<>>
    /\ last = Op("new")
    /\ inputs = 0
    /\ lock = 0
    /\ lost = {}
    /\ exited = {}

SpecNav == InitNav /\ [][NextSlowWorkers]_vars

-----------------------------------------------------------------------------
(* The view state: a burst of up to ViewInputs zoom and scroll keys read in
   one pass of the event drain loop *)

ViewInputs == 31

InitView ==
    /\ cache = PageCache_new
    /\ page_count = 1
    /\ current_page = 0
    /\ zoom = 100
    /\ pan = <<0, 0>>
    /\ layout = 1
    /\ dark_mode = FALSE
    /\ fullscreen = FALSE
    /\ goto_mode = FALSE
    /\ goto_input = <<>>
    /\ text_mode = FALSE
    /\ term = StartTerm
    /\ pending = {}
    /\ should_quit = FALSE
    /\ dirty = FALSE
    /\ pc = "poll"
    /\ req_q = <<>>
    /\ workers = [w \in Workers |-> None]
    /\ res_q = <<>>
    /\ last = Op("draw")
    /\ inputs = 0 - ViewInputs
    /\ lock = 0
    /\ lost = {}
    /\ exited = {}

NextView ==
    \/ ZoomIn \/ ZoomOut \/ ZoomReset
    \/ ScrollUp \/ ScrollDown \/ ScrollLeft \/ ScrollRight

SpecView == InitView /\ [][NextView]_vars

-----------------------------------------------------------------------------
(* The idle tick alone: a timed-out poll on a document of IdlePages pages,
   for every set of pages with a bitmap and every subset of those with a
   display object, on any page, layout and dark-mode setting *)

IdlePages == 7

\* the cache after insert_image for the pages of `bitmaps` and a successful
\* get_protocol in mode d for those of `shown`, page by page from p on
RECURSIVE BuildCache(_, _, _, _, _)
BuildCache(c, p, bitmaps, shown, d) ==
    IF p >= IdlePages THEN c
    ELSE LET c1 == IF p \in bitmaps
                   THEN insert_image(c, p, 277, render_page(p, 277)) ELSE c
             c2 == IF p \in shown
                   THEN get_protocol(c1, p, d, 100, <<0, 0>>, TRUE).cache ELSE c1
         IN BuildCache(c2, p + 1, bitmaps, shown, d)

InitIdle ==
    /\ page_count = IdlePages
    /\ \E bitmaps \in SUBSET (0 .. IdlePages - 1) :
         \E shown \in SUBSET bitmaps, d \in BOOLEAN :
           cache = BuildCache(PageCache_new, 0, bitmaps, shown, d)
    /\ current_page \in 0 .. page_count - 1
    /\ zoom \in {100, 110}
    /\ pan = <<0, 0>>
    /\ layout \in ConfigLayouts
    /\ dark_mode \in BOOLEAN
    /\ fullscreen = FALSE
    /\ goto_mode = FALSE
    /\ goto_input = <<>>
    /\ text_mode = FALSE
    /\ term = StartTerm
    /\ pending = {}
    /\ should_quit = FALSE
    /\ dirty = FALSE
    /\ pc = "poll"
    /\ req_q = <<>>
    /\ workers = [w \in Workers |-> None]
    /\ res_q = <<>>
    /\ last = Op("draw")
    /\ inputs = 0
    /\ lock = 0
    /\ lost = {}
    /\ exited = {}

SpecIdle == InitIdle /\ [][PollTimeout]_vars

\* The run loop with its scheduling: no rasterization and no encoding
\* fails, the keys are NextPage, ZoomIn and CycleLayout, a poll without
\* input times out, and every worker thread keeps running.
LoopStep ==
    \/ RunStart \/ ProcessResultsWith({TRUE}) \/ DrawWith({TRUE})
    \/ PollTimeoutWith({TRUE}) \/ EndEvents

WorkerStep(w) == WorkerLock(w) \/ WorkerRecv(w) \/ WorkerRenderOk(w)

NextQuiet ==
    \/ LoopStep
    \/ NextPage \/ ZoomIn \/ CycleLayout
    \/ \E w \in Workers : WorkerStep(w)

\* ENABLED <<LoopStep>>_vars: every step of the loop changes pc, and the
\* loop stops only at `while !self.should_quit`
LoopEnabled ==
    \/ pc \in {"start", "draw", "poll", "events"}
    \/ pc = "loop" /\ ~should_quit

\* weak fairness of the loop, WF_vars(LoopStep), with its enabling condition
\* written out, and weak fairness of every worker thread
SpecQuiet ==
    /\ Init
    /\ [][NextQuiet]_vars
    /\ ([]<>~LoopEnabled \/ []<><<LoopStep>>_vars)
    /\ \A w \in Workers : WF_vars(WorkerStep(w))

\* A document long enough for a jump beyond the eviction radius, opened at
\* its first page; the keys are the page keys, nothing fails, and one worker
\* thread does all the rasterizing.
FarPages == 17

InitFar ==
    /\ cache = PageCache_new
    /\ page_count = FarPages
    /\ current_page = 0
    /\ zoom = 100
    /\ pan = <<0, 0>>
    /\ layout = 1
    /\ dark_mode = FALSE
    /\ fullscreen = FALSE
    /\ goto_mode = FALSE
    /\ goto_input = <<>>
    /\ text_mode = FALSE
    /\ term = StartTerm
    /\ pending = {}
    /\ should_quit = FALSE
    /\ dirty = FALSE
    /\ pc = "start"
    /\ req_q = <<>>
    /\ workers = [w \in Workers |-> None]
    /\ res_q = <<>>
    /\ last = Op("new")
    /\ inputs = 0
    /\ lock = 0
    /\ lost = {}
    /\ exited = {}

NextFar ==
    \/ LoopStep
    \/ NextPage \/ PrevPage \/ FirstPage \/ LastPage
    \/ WorkerStep(1)

SpecFar == InitFar /\ [][NextFar]_vars

\* Shutdown: the user quits, run() returns, main drops the App, and every
\* worker thread keeps being scheduled.
WorkerThread(w) ==
    \/ WorkerLock(w) \/ WorkerRecv(w) \/ WorkerRenderOk(w) \/ WorkerRenderFail(w)
    \/ WorkerRecvClosed(w) \/ WorkerSendFails(w)

NextShutdown ==
    \/ RunStart \/ ProcessResults \/ Draw \/ PollTimeout \/ EndEvents
    \/ Quit \/ RunExit \/ DropSender \/ DropReceiver
    \/ \E w \in Workers : WorkerThread(w)

SpecShutdown ==
    /\ Init
    /\ [][NextShutdown]_vars
    /\ \A w \in Workers : WF_vars(WorkerThread(w))

-----------------------------------------------------------------------------
(* Claims *)

\* a step that is a call of the PageCache function, or the message, `name`
Called(name) == last'.op = name /\ <<cache, last>> # <<cache', last'>>

NoDerived(c, p) ==
    /\ p \notin DOMAIN c.inverted
    /\ <<p, FALSE>> \notin DOMAIN c.protocols
    /\ <<p, TRUE>> \notin DOMAIN c.protocols

\* the entry of page p (bitmap, scale tag, inverted variant, display objects)
Entry(c, p) ==
    <<MapGet(c.images, p), MapGet(c.image_scales, p), MapGet(c.inverted, p),
      MapGet(c.protocols, <<p, FALSE>>), MapGet(c.protocols, <<p, TRUE>>)>>

\* every derived object of the cache comes from the bitmap stored for its page
DerivedFromStored(c) ==
    /\ \A p \in DOMAIN c.inverted :
         /\ p \in DOMAIN c.images
         /\ c.inverted[p] = [c.images[p] EXCEPT !.inv = TRUE]
    /\ \A k \in DOMAIN c.protocols :
         /\ k[1] \in DOMAIN c.images
         /\ c.protocols[k].img.idx = c.images[k[1]].idx
         /\ c.protocols[k].img.scale = c.images[k[1]].scale
         /\ c.protocols[k].img.inv = k[2]

\* C3: stale derivations are never served.  In every state each cached
\* inverted variant and display object derives from the bitmap stored for its
\* page; insert_image leaves the page without inverted variant and without
\* display object in either mode; and the get_protocol call that follows an
\* insert_image for the same page invokes the encoder.
C3_NoStaleDerivation ==
    /\ [](DerivedFromStored(cache))
    /\ [][/\ Called("insert_image") => NoDerived(cache', last'.page)
          /\ (last.op = "insert_image" /\ Called("get_protocol")
                /\ last'.page = last.page) => last'.encoded]_vars

\* C3 witness: insert_image has replaced the bitmap of a page that had
\* derived objects, and they are gone
C3_Witness ==
    /\ last.op = "insert_image"
    /\ last.had
    /\ last.page \in DOMAIN cache.images
    /\ NoDerived(cache, last.page)

\* C4: every cached display object was built with the (zoom, pan) the cache
\* records; a get_protocol call with another (zoom, pan) leaves no display
\* object of any page except the one it builds, and records the new pair.
C4_DisplayMatchesRecordedView ==
    /\ [](\A k \in DOMAIN cache.protocols :
            /\ cache.protocols[k].zoom = cache.current_zoom
            /\ cache.protocols[k].pan = cache.current_pan)
    /\ [][(Called("get_protocol")
             /\ <<last'.zoom, last'.pan>> # <<cache.current_zoom, cache.current_pan>>)
          => /\ cache'.current_zoom = last'.zoom
             /\ cache'.current_pan = last'.pan
             /\ \A k \in DOMAIN cache'.protocols :
                  /\ k = <<last'.page, last'.dark>>
                  /\ last'.encoded]_vars

\* C4 witness: a get_protocol call with a new (zoom, pan) on a cache that held
\* display objects has left only the object it built, with two bitmaps cached
C4_Witness ==
    /\ last.op = "get_protocol"
    /\ last.had
    /\ last.encoded
    /\ DOMAIN cache.protocols = {<<last.page, last.dark>>}
    /\ Cardinality(DOMAIN cache.images) >= 2

\* C5: evict_distant(center, radius) removes exactly the entries beyond the
\* radius: such a page has no bitmap at any scale, no inverted variant and no
\* display object afterwards, and the entry of every other page is unchanged.
C5_EvictExact ==
    [][Called("evict_distant") =>
         \A p \in CachePageSet :
            IF Abs(p - last'.page) > last'.arg
            THEN /\ \A s \in CacheScales : ~has_image_at_scale(cache', p, s)
                 /\ Entry(cache', p) = <<None, None, None, None, None>>
            ELSE Entry(cache', p) = Entry(cache, p)]_vars

\* C5 witness: an eviction has dropped a cached page beyond the radius and
\* kept a cached page within it
C5_Witness ==
    /\ last.op = "evict_distant"
    /\ last.had
    /\ \E p \in DOMAIN cache.images : Abs(p - last.page) <= last.arg

\* C6: get_protocol never fails.  For a page without bitmap it returns None
\* (in either mode) and creates no bitmap, inverted variant or display object
\* of the page; for a page with a bitmap and a succeeding encoder it returns a
\* display object, which is then the one cached for (page, mode).
C6_GetDisplayTotal ==
    [][Called("get_protocol") =>
         LET p == last'.page
             key == <<last'.page, last'.dark>>
         IN /\ p \notin DOMAIN cache.images
               => /\ last'.ret = None
                  /\ p \notin DOMAIN cache'.images
                  /\ p \notin DOMAIN cache'.image_scales
                  /\ NoDerived(cache', p)
            /\ (p \in DOMAIN cache.images /\ ~last'.failed)
               => /\ last'.ret # None
                  /\ key \in DOMAIN cache'.protocols
                  /\ cache'.protocols[key] = last'.ret[1]]_vars

\* C6 witness: both cases have happened: a dark-mode call returned None for a
\* page without bitmap while another page has a display object cached
C6_Witness ==
    /\ last.op = "get_protocol"
    /\ last.dark
    /\ last.ret = None
    /\ last.page \notin DOMAIN cache.images
    /\ cache.protocols # EmptyMap

\* C7: when the encoder fails inside get_protocol the call returns None, no
\* display object is stored for (page, mode), the bitmap of the page is
\* unchanged, and the next get_protocol call for the same (page, mode)
\* invokes the encoder again.
C7_EncoderFailure ==
    [][/\ (Called("get_protocol") /\ last'.failed)
          => /\ last'.ret = None
             /\ <<last'.page, last'.dark>> \notin DOMAIN cache'.protocols
             /\ MapGet(cache'.images, last'.page) = MapGet(cache.images, last'.page)
             /\ MapGet(cache'.image_scales, last'.page)
                  = MapGet(cache.image_scales, last'.page)
       /\ (/\ last.op = "get_protocol" /\ last.failed
           /\ last'.op = "get_protocol"
           /\ last'.page = last.page /\ last'.dark = last.dark)
          => last'.encoded]_vars

\* C7 witness: the encoder has failed for a page that has a bitmap
C7_Witness ==
    /\ last.op = "get_protocol"
    /\ last.failed
    /\ last.ret = None
    /\ last.page \in DOMAIN cache.images

\* a get_protocol call for (page, mode) made with the recorded (zoom, pan)
\* while the display object of the other mode of the page is cached
OtherModeCached ==
    /\ Called("get_protocol")
    /\ <<last'.zoom, last'.pan>> = <<cache.current_zoom, cache.current_pan>>
    /\ <<last'.page, ~last'.dark>> \in DOMAIN cache.protocols

\* the call neither returns nor removes the display object of the other mode
OtherModeKept ==
    LET other == <<last'.page, ~last'.dark>>
    IN /\ other \in DOMAIN cache'.protocols
       /\ cache'.protocols[other] = cache.protocols[other]
       /\ last'.ret # Some(cache.protocols[other])

\* the call leaves a display object of its own mode cached, built from the
\* inverted bitmap in dark mode and from the rendered bitmap in light mode
OwnModeCached ==
    LET key == <<last'.page, last'.dark>>
    IN /\ key \in DOMAIN cache'.protocols
       /\ last'.ret = Some(cache'.protocols[key])
       /\ cache'.protocols[key].img.inv = last'.dark
       /\ last'.dark => last'.page \in DOMAIN cache'.inverted

\* C8: a dark-mode get_protocol call for a page whose light display object
\* is cached neither returns nor removes the light object; unless the encoder
\* fails it returns a separate dark object derived from the inverted bitmap,
\* and afterwards both are cached; when the encoder fails only the light
\* object is cached.  The same holds with the modes exchanged.
C8_ModesCoexist ==
    [][OtherModeCached =>
         /\ OtherModeKept
         /\ IF last'.failed
            THEN /\ last'.ret = None
                 /\ <<last'.page, last'.dark>> \notin DOMAIN cache'.protocols
            ELSE OwnModeCached]_vars

\* C8 as stated: after the call both display objects are cached
C8_BothCachedAlways ==
    [][OtherModeCached => (OtherModeKept /\ OwnModeCached)]_vars

\* C8 witness: a dark-mode call has built a dark display object next to the
\* cached light one
C8_Witness ==
    /\ last.op = "get_protocol"
    /\ last.dark
    /\ last.encoded
    /\ ~last.had
    /\ last.ret # None
    /\ <<last.page, FALSE>> \in DOMAIN cache.protocols
    /\ <<last.page, TRUE>> \in DOMAIN cache.protocols
    /\ cache.protocols[<<last.page, TRUE>>] # cache.protocols[<<last.page, FALSE>>]

\* C9: invalidate_protocols, and so the CycleLayout message, removes every
\* display object and leaves every bitmap, scale tag and inverted variant in
\* place; clear leaves no bitmap, scale tag, inverted variant or display
\* object.
C9_InvalidateAndClear ==
    [][/\ (Called("invalidate_protocols") \/ Called("CycleLayout"))
          => /\ cache'.protocols = EmptyMap
             /\ cache'.images = cache.images
             /\ cache'.image_scales = cache.image_scales
             /\ cache'.inverted = cache.inverted
       /\ Called("clear")
          => /\ cache'.images = EmptyMap
             /\ cache'.image_scales = EmptyMap
             /\ cache'.inverted = EmptyMap
             /\ cache'.protocols = EmptyMap]_vars

\* C9 witness: CycleLayout has removed display objects from a cache that
\* holds bitmaps and an inverted variant
C9_Witness ==
    /\ last.op = "CycleLayout"
    /\ last.had
    /\ cache.protocols = EmptyMap
    /\ cache.images # EmptyMap
    /\ cache.inverted # EmptyMap

\* the page indices of a request queue, in sending order
SentPages(q) == [i \in 1 .. Len(q) |-> q[i].idx]

\* the order the claim C10 states: the visible pages, then for each offset
\* the page ahead followed by the page behind; pages outside the document
\* are left out
StatedOrder(cur, n, pcount) ==
    LET ve == cur + n
        all == [i \in 1 .. n |-> cur + i - 1]
               \o <<ve, cur - 1, ve + 1, cur - 2, ve + 2, cur - 3,
                    ve + 3, cur - 4, ve + 4, cur - 5>>
    IN SelectSeq(all, LAMBDA x : x >= 0 /\ x < pcount)

\* C10: from an empty cache and an empty pending set, the first request step
\* sends one request per page, at the render scale, in this order: the
\* visible pages in increasing order, then for offset 0..4 the page
\* visible_end + offset (if below page_count) followed by the page
\* current_page - offset - 1 (if not negative); with 100 pages, one page
\* across and current_page 0 the pages sent are 0, 1, 2, 3, 4, 5.
C10_RequestOrder ==
    [][(pc = "start" /\ pc' = "loop" /\ cache.image_scales = EmptyMap
          /\ pending = {} /\ req_q = <<>>)
       => /\ SentPages(req_q') = StatedOrder(current_page, layout, page_count)
          /\ \A i \in 1 .. Len(req_q') : req_q'[i].scale = Scale
          /\ pending' = {req_q'[i].idx : i \in 1 .. Len(req_q')}
          /\ (page_count = 100 /\ layout = 1 /\ current_page = 0)
               => SentPages(req_q') = <<0, 1, 2, 3, 4, 5>>]_vars

\* C10 witness: the request step of a 100-page document, two pages across,
\* at page 2 has sent ahead and behind requests interleaved
C10_Witness ==
    /\ pc = "loop"
    /\ page_count = 100
    /\ layout = 2
    /\ current_page = 2
    /\ SentPages(req_q) = <<2, 3, 4, 1, 5, 0, 6, 7, 8>>

\* the requests the worker pool holds: queued, being rasterized, or rendered
\* with the result not yet drained
Outstanding ==
    req_q
    \o [w \in Workers |-> IF workers[w] = None THEN [idx |-> -1, scale |-> w]
                          ELSE workers[w][1]]
    \o [i \in 1 .. Len(res_q) |-> [idx |-> res_q[i].idx, scale |-> res_q[i].scale]]

\* C1: the worker pool never holds two outstanding requests for the same page
\* at the same scale.
C1_NoDuplicateOutstanding ==
    \A i, j \in 1 .. Len(Outstanding) :
        i # j => Outstanding[i] # Outstanding[j]

\* the results a drain step accepts for page p: those whose scale is within
\* 0.01 (10 in 1/1000) of the target scale computed at drain time
Accepted(p) ==
    {i \in 1 .. Len(res_q) :
        /\ res_q[i].idx = p
        /\ res_q[i].scale - Scale < 10
        /\ Scale - res_q[i].scale < 10}

\* C2: a process_render_results step removes the page index of every drained
\* result from the pending set and leaves no result undrained; the bitmap of
\* a result is inserted (the last one per page staying) if and only if its
\* scale is within 0.01 of the target scale at drain time; when no drained
\* result is, the cache does not change.
C2_DrainAcceptsCurrentScale ==
    [][(pc = "loop" /\ pc' = "draw" /\ ~text_mode)
       => /\ pending' = pending \ {res_q[i].idx : i \in 1 .. Len(res_q)}
          /\ res_q' = <<>>
          /\ \A p \in 0 .. page_count - 1 :
               IF Accepted(p) = {}
               THEN /\ MapGet(cache'.images, p) = MapGet(cache.images, p)
                    /\ MapGet(cache'.image_scales, p) = MapGet(cache.image_scales, p)
               ELSE LET i == CHOOSE k \in Accepted(p) :
                                 \A m \in Accepted(p) : m <= k
                    IN /\ MapGet(cache'.images, p) = Some(res_q[i].img)
                       /\ MapGet(cache'.image_scales, p) = Some(res_q[i].scale)
          /\ (\A p \in 0 .. page_count - 1 : Accepted(p) = {}) => cache' = cache]_vars

\* C2 witness: one drain has discarded a result at a stale scale and inserted
\* the bitmap of a result at the target scale
C2_Witness ==
    /\ pc = "draw"
    /\ last.op = "process_render_results"
    /\ last.stale > 0
    /\ last.arg > last.stale
    /\ last.had
    /\ cache.images # EmptyMap

\* the cache holds a bitmap of page p whose scale is within 0.01 of scale
CachedNear(c, p, scale) ==
    /\ p \in DOMAIN c.image_scales
    /\ c.image_scales[p] - scale < 10
    /\ scale - c.image_scales[p] < 10

\* the pages of the request window at page cur with n pages across
Window(cur, n, pcount) ==
    {p \in 0 .. pcount - 1 : p >= cur - 5 /\ p <= cur + n + 4}

C12_CropInside ==
    last.op = "crop_with_pan" =>
        LET r == last.ret[1]
            img == cache.images[0]
        IN /\ r.x >= 0 /\ r.y >= 0
           /\ r.w >= 1 /\ r.h >= 1
           /\ r.x + r.w <= img.w
           /\ r.y + r.h <= img.h

\* C12 restricted to the calls get_protocol makes (zoom > 1.0) on bitmaps of
\* at least 2 x 2 pixels
C12_CropInsideZoomedIn ==
    (last.op = "crop_with_pan" /\ last.zoom > 100
        /\ cache.images[0].w >= 2 /\ cache.images[0].h >= 2) =>
        LET r == last.ret[1]
            img == cache.images[0]
        IN /\ r.x >= 0 /\ r.y >= 0
           /\ r.w >= 1 /\ r.h >= 1
           /\ r.x + r.w <= img.w
           /\ r.y + r.h <= img.h

\* C14: GotoConfirm sets current_page to n - 1 exactly when the typed input
\* is a number n with 1 <= n <= page_count, leaves current_page unchanged
\* otherwise (empty input, 0, n > page_count), and always leaves goto mode
\* with an empty input buffer.
C14_GotoConfirm ==
    [][last'.op = "GotoConfirm" /\ goto_mode =>
         LET n == DigitsValue(goto_input)
             in_range == goto_input # <<>> /\ 1 <= n /\ n <= page_count
         IN /\ in_range => current_page' = n - 1
            /\ ~in_range => current_page' = current_page
            /\ ~goto_mode'
            /\ goto_input' = <<>>]_vars

\* a confirmed page number moved the view to the middle page of three
C14_Witness ==
    /\ last.op = "GotoConfirm"
    /\ ~goto_mode
    /\ goto_input = <<>>
    /\ page_count = 3
    /\ current_page = 1

\* the requests a step sends
NewRequests ==
    {req_q'[i] : i \in Len(req_q) + 1 .. Len(req_q')}

\* C13: after a worker failed to rasterize page p at a scale, no further
\* request for p at that scale is sent until an event that clears the
\* pending set wholesale (zoom, resize, fullscreen toggle, leaving text mode)
\* has occurred after the failure.
C13_NoRequestAfterFailure ==
    [][NewRequests \cap lost' = {}]_vars

\* every visible page has a bitmap cached at the current target scale
VisibleCached ==
    \A i \in 0 .. layout - 1 :
        current_page + i < page_count => CachedNear(cache, current_page + i, Scale)

\* the coordinator waits for input in image mode with nothing to redraw, and
\* the pool holds no request and no result
Idle ==
    /\ pc \in {"poll", "loop", "draw"}
    /\ ~dirty
    /\ ~text_mode
    /\ ~should_quit
    /\ req_q = <<>>
    /\ res_q = <<>>
    /\ \A w \in Workers : workers[w] = None

Quiescent == Idle /\ pc = "poll"

\* a step that consumes an input event
InputStep == pc' = "events"

\* without input an idle application stays idle, sends nothing, and its
\* bitmaps and target scale stay as they are
IdleIsStable ==
    [][Idle /\ ~InputStep =>
         /\ Idle'
         /\ UNCHANGED <<cache.images, cache.image_scales, pending,
                        current_page, layout, term, zoom, fullscreen>>]_vars

\* C15: when every rasterization succeeds and the pool has worked off all
\* requests and the coordinator has drained all results and waits for
\* input, every visible page has a cached bitmap at the current target
\* scale (otherwise, with no further input, it never gets one).
C15_SettledVisibleCached ==
    Quiescent => VisibleCached

\* the distinct requests in flight: sent to the pool, their result not drained
InFlight ==
    {req_q[i] : i \in 1 .. Len(req_q)}
    \cup {workers[w][1] : w \in {v \in Workers : workers[v] # None}}
    \cup {[idx |-> res_q[i].idx, scale |-> res_q[i].scale] : i \in 1 .. Len(res_q)}

\* C16: the number of distinct requests in flight never exceeds
\* pages_across + 10.
C16_InFlightBounded ==
    Cardinality(InFlight) <= layout + 10

\* the page indices a step removes from the pending set
Unmarked == pending \ pending'

\* the step drains a render result for page p
DrainsResultFor(p) ==
    /\ pc = "loop"
    /\ pc' = "draw"
    /\ ~text_mode
    /\ \E i \in 1 .. Len(res_q) : res_q[i].idx = p
    /\ res_q' = <<>>

\* the step is one of the handlers that call pending.clear(): a zoom
\* message, a resize, the fullscreen toggle, or leaving text mode
ClearingStep ==
    /\ pc' = "events"
    /\ last' # last
    /\ \/ last'.op \in {"ZoomIn", "ZoomOut", "ZoomReset", "Resize",
                         "ToggleFullscreen"}
       \/ last'.op = "ToggleTextMode" /\ text_mode

\* C17 (as the code has it): a page index is removed from the pending set
\* only by the draining of a render result for that page, at any scale, or by
\* a handler that clears the set wholesale (zoom, resize, fullscreen toggle,
\* leaving text mode); a worker whose rasterization fails removes nothing.
C17_RemovedByDrainOrClear ==
    [][\A p \in Unmarked : DrainsResultFor(p) \/ ClearingStep]_vars

\* C17 as stated: only the draining of a result for the page removes its
\* index (a dropped request removes nothing in the code).
C17_RemovedOnlyByDrain ==
    [][\A p \in Unmarked : DrainsResultFor(p)]_vars

\* a zoom key has just cleared the pending set while the requests it marked
\* are still in the queue
C17_Witness ==
    /\ last.op = "ZoomIn"
    /\ pc = "events"
    /\ pending = {}
    /\ req_q # <<>>

\* C18: whenever the coordinator is outside its event drain loop, every page
\* with a request at the current target scale in flight (queued, being
\* rasterized, or rendered and not drained) is in the pending set.
C18_PendingTracksInFlight ==
    pc # "events" =>
        \A r \in InFlight : r.scale = Scale => r.idx \in pending

\* worker w takes the request at the head of the queue
Dequeues(w) ==
    /\ req_q # <<>>
    /\ workers[w] = None
    /\ workers'[w] = <<Head(req_q)>>
    /\ req_q' = Tail(req_q)
    /\ \A v \in Workers \ {w} : workers'[v] = workers[v]

\* the step appends requests to the queue and takes none from it
Sends ==
    /\ Len(req_q') > Len(req_q)
    /\ SubSeq(req_q', 1, Len(req_q)) = req_q

\* C19: every sent request is dequeued by exactly one worker, at most once,
\* and in the order the coordinator sent it: the queue changes only by
\* requests appended at its tail or by one idle worker taking its head, and
\* a worker starts rasterizing a request only by taking it from the head.
C19_DequeuedOnceInOrder ==
    [][/\ req_q' # req_q => Sends \/ \E w \in Workers : Dequeues(w)
       /\ \A w \in Workers :
            workers'[w] # workers[w] /\ workers'[w] # <<>> => Dequeues(w)]_vars

\* the two workers rasterize different requests while another request waits
\* in the queue and a result waits to be drained
C19_Witness ==
    /\ workers[1] # <<>>
    /\ workers[2] # <<>>
    /\ workers[1] # workers[2]
    /\ req_q # <<>>
    /\ res_q # <<>>

\* C20: a worker that rasterizes or sends a result does not hold the lock of
\* the request queue, so whenever a request is queued and a worker is idle,
\* some worker can proceed to take it, however long the others rasterize.
C20_LockOnlyAroundRecv ==
    /\ \A w \in Workers : workers[w] # <<>> => lock # w
    /\ req_q # <<>> /\ (\E w \in Workers : workers[w] = <<>>) =>
           ENABLED (\E w \in Workers : WorkerLock(w) \/ WorkerRecv(w))

\* both workers rasterize at the same time while a request is queued
C20_Witness ==
    /\ \A w \in Workers : workers[w] # <<>>
    /\ lock = 0
    /\ req_q # <<>>

\* C28: current_page is a page of the document, and every request sent to
\* the pool (queued, taken by a worker, or rendered) carries a page index
\* below page_count.
C28_PageInRange ==
    /\ 0 <= current_page
    /\ current_page < page_count
    /\ \A r \in InFlight : 0 <= r.idx /\ r.idx < page_count

\* after one input the view is on the last page of a three-page document
\* shown three pages across, and exactly the three pages are requested
C28_Witness ==
    /\ last.op = "end_events"
    /\ inputs = 1
    /\ page_count = 3
    /\ layout = 3
    /\ current_page = 2
    /\ Cardinality(InFlight) = 3

\* C29: 0.25 <= zoom <= 4.0, pan_x and pan_y lie in [-1, 1], and pan is
\* (0, 0) whenever zoom <= 1.
C29_ViewInRange ==
    /\ 25 <= zoom /\ zoom <= 400
    /\ -100 <= pan[1] /\ pan[1] <= 100
    /\ -100 <= pan[2] /\ pan[2] <= 100
    /\ zoom <= 100 => pan = <<0, 0>>

\* zoomed in one step, scrolled right and up until both pans are clamped
C29_Witness ==
    /\ zoom = 110
    /\ pan = <<100, -100>>
    /\ last.op \in {"ScrollRight", "ScrollUp"}

\* C30: after any sequence of insert_image, get_protocol,
\* invalidate_protocols, clear and evict_distant calls, a page has a scale
\* tag if and only if it has a bitmap, and every page with an inverted
\* variant or a display object (light or dark) has a bitmap.
C30_CacheStructure ==
    /\ DOMAIN cache.image_scales = DOMAIN cache.images
    /\ DOMAIN cache.inverted \subseteq DOMAIN cache.images
    /\ \A k \in DOMAIN cache.protocols : k[1] \in DOMAIN cache.images

\* an eviction has dropped one page while the other keeps its bitmap, its
\* inverted variant and a display object
C30_Witness ==
    /\ last.op = "evict_distant"
    /\ last.had
    /\ cache.images # EmptyMap
    /\ cache.inverted # EmptyMap
    /\ cache.protocols # EmptyMap

\* the step is a timed-out poll (the idle branch of the loop)
IdleTick == pc = "poll" /\ pc' = "loop"

\* the display objects a step adds to the cache
NewProtocols == DOMAIN cache'.protocols \ DOMAIN cache.protocols

\* C23: a timed-out poll encodes a display object only when no visible page
\* is pending a render, that is when every visible page has a bitmap at the
\* current target scale.
C23_PrewarmOnlyWhenVisibleCached ==
    [][IdleTick /\ NewProtocols # {} => VisibleCached]_vars

\* the pages an idle tick may encode: within pages_across + 5 ahead of and 5
\* behind current_page, with a bitmap and without a display object for the
\* current dark-mode setting
Candidates ==
    {p \in 0 .. page_count - 1 :
        /\ p >= current_page - 5
        /\ p < current_page + layout + 5
        /\ p \in DOMAIN cache.images
        /\ <<p, dark_mode>> \notin DOMAIN cache.protocols}

\* the first candidate: the lowest at or ahead of current_page, or else the
\* lowest behind it
FirstCandidate ==
    LET ahead == {p \in Candidates : p >= current_page}
    IN IF ahead # {} THEN CHOOSE p \in ahead : \A q \in ahead : p <= q
       ELSE CHOOSE p \in Candidates : \A q \in Candidates : p <= q

\* C24: an idle tick leaves the cache alone when there is no candidate, and
\* otherwise makes one get_protocol call, for the first candidate in the
\* order ahead-then-behind: it adds no display object but that page's, and
\* adds that one unless the encoder fails.
C24_OnePrewarmPerTick ==
    [][IdleTick =>
         IF Candidates = {}
         THEN cache' = cache
         ELSE /\ NewProtocols \subseteq {<<FirstCandidate, dark_mode>>}
              /\ \E ok \in BOOLEAN :
                    cache' = get_protocol(cache, FirstCandidate, dark_mode, zoom,
                                          pan, ok).cache]_vars

\* a tick on page 6 of 7 has encoded page 6 while page 1, behind, and
\* page 0, outside the window, are still without a display object
C24_Witness ==
    /\ last.op = "idle"
    /\ current_page = 6
    /\ DOMAIN cache.images = {0, 1, 6}
    /\ DOMAIN cache.protocols = {<<6, dark_mode>>}

\* the step handles a zoom message
ZoomMessage ==
    /\ pc' = "events"
    /\ inputs' = inputs + 1
    /\ last'.op \in {"ZoomIn", "ZoomOut", "ZoomReset"}

\* the scale is outside the tolerance of the target scale
Stale(scale, target) == scale - target >= 10 \/ target - scale >= 10

\* the step is the drain of process_render_results
DrainStep == pc = "loop" /\ pc' = "draw" /\ ~text_mode

\* the bitmap, scale tag and inverted variant of every page are unchanged
BitmapsUnchanged ==
    /\ cache'.images = cache.images
    /\ cache'.image_scales = cache.image_scales
    /\ cache'.inverted = cache.inverted

Perms(n) == {f \in [1 .. n -> 1 .. n] : \A i, j \in 1 .. n : i # j => f[i] # f[j]}

\* the pending set and the cache after the results are drained in this order
Drained(results) ==
    DrainAll([pending |-> pending, cache |-> cache, received |-> FALSE],
             results, Scale)

\* C22: when the coordinator is about to drain, the scale tag of every page
\* and the pending set after the drain are the same for every order in which
\* the results in the channel could have been delivered.
C22_DrainOrderIndependent ==
    pc = "loop" /\ ~text_mode =>
        \A f \in Perms(Len(res_q)) :
           LET other == Drained([i \in 1 .. Len(res_q) |-> res_q[f[i]]])
           IN /\ other.cache.image_scales = Drained(res_q).cache.image_scales
              /\ other.pending = Drained(res_q).pending

\* the state in which the loop selects the long poll timeout in image mode
SettledState ==
    /\ ~has_pending_visible(cache, current_page, layout, page_count, Scale)
    /\ ~has_nearby_unwarmed_protocol(cache, current_page, layout, page_count,
                                     dark_mode)

\* C25: once the input has ended, and with every rasterization and every
\* encoding succeeding, the loop eventually reaches the settled state (no
\* visible page without a bitmap at the target scale, no nearby page
\* unwarmed) and stays in it, so that it selects the long poll timeout from
\* then on.
C25_EventuallySettled == <>[]SettledState

\* C27: whenever the loop is about to wait for input, every page with a
\* cached bitmap is within index distance 15 of the current page, so the
\* cache holds at most 31 bitmaps.
C27_CachedWithinRadius ==
    pc = "poll" =>
        /\ \A p \in DOMAIN cache.images : Abs(p - current_page) <= EvictRadius
        /\ Cardinality(DOMAIN cache.images) <= 2 * EvictRadius + 1

\* C21: once the request sender is dropped every worker eventually leaves
\* its loop; a worker that has left takes no further request and never
\* holds the queue lock again; and a worker leaves only because its result
\* send failed (the receiver is gone) or because the sender is gone and the
\* queued requests have all been taken.
C21_WorkersExit ==
    /\ SenderDropped ~> (exited = Workers)
    /\ [][\A w \in Workers :
            /\ w \in exited => w \in exited' /\ workers'[w] = None /\ lock' # w
            /\ w \in exited' \ exited =>
                 \/ ReceiverDropped /\ workers[w] # None
                 \/ SenderDropped /\ req_q = <<>> /\ lock = w]_vars

\* the App has been dropped, every worker has left its loop, the queue is
\* empty and the lock is free
C21_Witness ==
    /\ ReceiverDropped
    /\ exited = Workers
    /\ req_q = <<>>
    /\ lock = 0

====
